---- MODULE Spec2Model ----
(***************************************************************************)
(* Model of ihex's BinaryReader (src/binary_reader.rs): the streaming      *)
(* converter that turns the records of an Intel HEX file into a contiguous *)
(* byte stream through std::io::Read::read.                                *)
(*                                                                         *)
(* u32 values are kept exactly, as pairs <<high 16 bits, low 16 bits>>,    *)
(* because the model checker's integers are narrower than u32.             *)
(***************************************************************************)
EXTENDS Integers, Sequences, FiniteSets, TLC

\* ------------------------------------------------------------------ bounds
MaxRecords == 3     \* longest record sequence the producer delivers
MaxBuf == 3         \* longest buffer handed to read
MaxOut == 20        \* most bytes requested from one converter over its life
MaxPairRecords == 2 \* longest record sequence when two converters are compared
MaxPairOut == 20     \* most bytes requested from each of two compared converters
MaxWideRecords == 3 \* longest record sequence over the ends of the u16 range

\* ------------------------------------------------------- u32 / u16 / usize
Limb == 2 ^ 16

\* a usize converted with `as u32` (truncating)
FromUsize(n) == << (n \div Limb) % Limb, n % Limb >>

\* a u16 converted with `as u32`
FromU16(x) == << 0, x >>

\* (x as u32) << s, for a u16 x and s in {4, 16}: never loses a bit
Shl(x, s) == << x \div (2 ^ (16 - s)), (x % (2 ^ (16 - s))) * (2 ^ s) >>

\* a + b on u32: the wrapped value and whether it overflowed
Add32(a, b) ==
  LET lo == a[2] + b[2]
      hi == a[1] + b[1] + (lo \div Limb)
  IN  [overflow |-> hi >= Limb, value |-> << hi % Limb, lo % Limb >>]

\* a - b on u32: the wrapped value and whether it underflowed
Sub32(a, b) ==
  LET lo == a[2] - b[2]
      hi == a[1] - b[1] - (IF lo < 0 THEN 1 ELSE 0)
  IN  [overflow |-> hi < 0, value |-> << (hi + Limb) % Limb, (lo + Limb) % Limb >>]

Gt32(a, b) == a[1] > b[1] \/ (a[1] = b[1] /\ a[2] > b[2])

Ge32(a, b) == a = b \/ Gt32(a, b)

Zero32 == << 0, 0 >>

\* ----------------------------------------------------------------- Record
\* crate::Record, and the producer's Err item, in one shape:
\* a, b are the numeric fields of the variant, value the payload of Data.
Rec(k, a, b, value) == [k |-> k, a |-> a, b |-> b, value |-> value]

None == Rec("None", 0, 0, << >>)
ExtendedSegmentAddress(addr) == Rec("ExtendedSegmentAddress", addr, 0, << >>)
ExtendedLinearAddress(addr) == Rec("ExtendedLinearAddress", addr, 0, << >>)
Data(offset, value) == Rec("Data", offset, 0, value)
StartSegmentAddress(cs, ip) == Rec("StartSegmentAddress", cs, ip, << >>)
\* the u32 of StartLinearAddress is <<a, b>>
StartLinearAddress(hi, lo) == Rec("StartLinearAddress", hi, lo, << >>)
EndOfFile == Rec("EndOfFile", 0, 0, << >>)
\* Some(Err(e)) from the producer
ReaderError == Rec("Err", 0, 0, << >>)

\* StartAddress, as Option<StartAddress>
StartNone == [k |-> "None", a |-> 0, b |-> 0]
Segment(cs, ip) == [k |-> "Segment", a |-> cs, b |-> ip]
Linear(hi, lo) == [k |-> "Linear", a |-> hi, b |-> lo]

\* ------------------------------------------------------------ the producer
\* Reader<R>: a lazy sequence of items; next() returns None once the source
\* is exhausted, and keeps returning None.
ReaderNew == [pos |-> 1, finished |-> FALSE]

next(reader, input) ==
  IF reader.finished \/ reader.pos > Len(input)
    THEN [item |-> None, reader |-> [reader EXCEPT !.finished = TRUE]]
    ELSE [item |-> input[reader.pos],
          reader |-> [reader EXCEPT !.pos = reader.pos + 1]]

\* ------------------------------------------------------------ BinaryReader
new(reader) ==
  [reader |-> reader,
   record |-> None,
   record_pos |-> 0,
   base_address |-> Zero32,
   address |-> Zero32,
   read_bytes |-> Zero32,
   start_address |-> StartNone]

start_address(self) == self.start_address

\* What a call observes besides the program state (not program state itself):
\*   checks      whether the build panics on integer overflow (debug) or wraps
\*   overflowed  an addition or subtraction left the u32 range in this call
\*   pulls       number of reader.next() calls made by this call
\*   pre_pull    the converter just before the latest reader.next()
\*   pulled_err  the latest reader.next() returned Some(Err(e))
\*   fresh       the held record has not been dispatched yet
\*   closed      this call processed EndOfFile or found the producer exhausted
\*   log         one entry per Data record dispatched so far (whole lifetime)
\*   addr_events one entry per address record processed by this call
\*   addr_count  address records processed so far (whole lifetime)
\*   frames      one entry per address or start-address record processed by
\*               this call
\*   underflow   `addr - self.base_address` went below 0 in this call
\*   ra_overflow `self.address + *offset as u32` went past u32::MAX in this
\*               call
Observe(self, checks, log, addr_count) ==
  [checks |-> checks, overflowed |-> FALSE, pulls |-> 0, pre_pull |-> self,
   pulled_err |-> FALSE, fresh |-> FALSE, closed |-> FALSE, log |-> log,
   addr_events |-> << >>, addr_count |-> addr_count, frames |-> << >>,
   underflow |-> FALSE, ra_overflow |-> FALSE]

\* update_address with the test on read_bytes left out
update_address_ignores_read_bytes(self, addr, checks) ==
  IF self.base_address = Zero32
    THEN [self |-> [self EXCEPT !.base_address = addr],
          overflow |-> FALSE, panic |-> FALSE]
    ELSE LET d == Sub32(addr, self.base_address)
         IN  [self |-> IF d.overflow /\ checks THEN self
                       ELSE [self EXCEPT !.address = d.value],
              overflow |-> d.overflow,
              panic |-> d.overflow /\ checks]

\* update_address that stores addr itself, `self.address = addr`
update_address_keeps_base_in(self, addr, checks) ==
  IF self.base_address = Zero32 /\ self.read_bytes = Zero32
    THEN [self |-> [self EXCEPT !.base_address = addr],
          overflow |-> FALSE, panic |-> FALSE]
    ELSE [self |-> [self EXCEPT !.address = addr],
          overflow |-> FALSE, panic |-> FALSE]

\* update_address that adds where the code subtracts,
\* `self.address = addr + self.base_address`
update_address_adds_base(self, addr, checks) ==
  IF self.base_address = Zero32 /\ self.read_bytes = Zero32
    THEN [self |-> [self EXCEPT !.base_address = addr],
          overflow |-> FALSE, panic |-> FALSE]
    ELSE LET d == Add32(addr, self.base_address)
         IN  [self |-> IF d.overflow /\ checks THEN self
                       ELSE [self EXCEPT !.address = d.value],
              overflow |-> d.overflow,
              panic |-> d.overflow /\ checks]

\* fn update_address(&mut self, addr: u32); panic is the debug build's
\* "attempt to subtract with overflow"
update_address(self, addr, checks) ==
  IF self.base_address = Zero32 /\ self.read_bytes = Zero32
    THEN [self |-> [self EXCEPT !.base_address = addr],
          overflow |-> FALSE, panic |-> FALSE]
    ELSE LET d == Sub32(addr, self.base_address)
         IN  [self |-> IF d.overflow /\ checks THEN self
                       ELSE [self EXCEPT !.address = d.value],
              overflow |-> d.overflow,
              panic |-> d.overflow /\ checks]

\* ---------------------------------------------------- the caller's buffer
\* buf: the caller's memory and the start of the slice `buf` still to fill.
\* A cell remembers whether this call wrote it.
Cell(set, byte) == [set |-> set, byte |-> byte]

BufNew(len) == [mem |-> [i \in 1..len |-> Cell(FALSE, 0)], off |-> 0]

\* buf.len()
BufLen(buf) == Len(buf.mem) - buf.off

\* buf[..Len(bytes)].copy_from_slice(bytes)
CopyFromSlice(buf, bytes) ==
  [buf EXCEPT !.mem = [i \in 1..Len(buf.mem) |->
      IF i > buf.off /\ i <= buf.off + Len(bytes)
        THEN Cell(TRUE, bytes[i - buf.off]) ELSE buf.mem[i]]]

\* buf[..n].fill(0)
FillZero(buf, n) == CopyFromSlice(buf, [i \in 1..n |-> 0])

\* buf = &mut buf[n..]
Advance(buf, n) == [buf EXCEPT !.off = buf.off + n]

\* what read hands back: Ok(n), Err(e), or a panic that unwinds out of read
\* (the build only shows in a call in which some arithmetic overflowed)
Return(self, buf, kind, n, g) ==
  [self |-> self, mem |-> buf.mem, kind |-> kind, n |-> n,
   g |-> [g EXCEPT !.checks = g.checks /\ g.overflowed]]

\* ------------------------------------------------------------------ state
VARIABLES
  input,            \* the items the producer delivers, in order
  overflow_checks,  \* "unknown" until the build's overflow behaviour shows
  binary_reader,    \* the BinaryReader
  caller,           \* what the caller of binary_reader has seen so far
  call,             \* the latest read call on binary_reader
  binary_reader2,   \* a second BinaryReader over the same input
  caller2,          \* what the caller of binary_reader2 has seen so far
  call2             \* the latest read call on binary_reader2

vars == << input, overflow_checks, binary_reader, caller, call,
           binary_reader2, caller2, call2 >>

\* ------------------------------------------------------------------- read
\* One dispatch of a Data record: the entry of the log that follows it.
LogData(g, self, record_address, zeroed_len, copies, first) ==
  LET log0 == IF g.fresh
                THEN Append(g.log, [ra |-> record_address,
                                    from |-> self.read_bytes,
                                    zeroed |-> 0, at |-> << >>, byte |-> 0,
                                    address |-> self.address,
                                    offset |-> self.record.a,
                                    value |-> self.record.value])
                ELSE g.log
      e == log0[Len(log0)]
      e1 == [e EXCEPT !.zeroed = e.zeroed + zeroed_len]
      e2 == IF copies /\ e1.at = << >>
              THEN [e1 EXCEPT
                      !.at = << Add32(self.read_bytes, FromUsize(zeroed_len)).value >>,
                      !.byte = first]
              ELSE e1
  IN  [g EXCEPT !.fresh = FALSE, !.log = [log0 EXCEPT ![Len(log0)] = e2]]

\* One address record processed: the entry of addr_events that records it.
LogAddress(g, addr, self, after) ==
  [g EXCEPT !.fresh = FALSE,
            !.addr_count = g.addr_count + 1,
            !.addr_events = Append(g.addr_events,
                [k |-> self.record.k, raw |-> self.record.a,
                 addr |-> addr, nth |-> g.addr_count + 1,
                 base0 |-> self.base_address, address0 |-> self.address,
                 read_bytes0 |-> self.read_bytes,
                 base1 |-> after.base_address, address1 |-> after.address])]

\* One address or start-address record processed: the entry of frames that
\* records the converter and the buffer before the arm and after it.
LogFrame(g, self, after, buf, buf1) ==
  [g EXCEPT !.frames = Append(g.frames,
      [k |-> self.record.k,
       read_bytes0 |-> self.read_bytes, read_bytes1 |-> after.read_bytes,
       record_pos0 |-> self.record_pos, record_pos1 |-> after.record_pos,
       buf0 |-> buf, buf1 |-> buf1, record1 |-> after.record])]

Overflowed(g) == [g EXCEPT !.overflowed = TRUE]

Underflowed(g) == [g EXCEPT !.overflowed = TRUE, !.underflow = TRUE]

AddressOverflowed(g) == [g EXCEPT !.overflowed = TRUE, !.ra_overflow = TRUE]

RECURSIVE read_loop(_, _, _, _)
RECURSIVE pull(_, _, _, _)

\* the arms ExtendedSegmentAddress / ExtendedLinearAddress of the match
read_address(self, addr, buf, buf_len, g) ==
  LET u == update_address(self, addr, g.checks)
      g1 == IF u.overflow THEN Underflowed(g) ELSE g
  IN  IF u.panic
        THEN Return(self, buf, "panic", 0, g1)
        ELSE pull([u.self EXCEPT !.record = None], buf, buf_len,
                  LogFrame(LogAddress(g1, addr, self, u.self), self,
                           [u.self EXCEPT !.record = None], buf, buf))

\* read_start that returns what the call has written and keeps the record,
\* like the EndOfFile arm
read_start_returns(self, start, buf, buf_len, g) ==
  Return([self EXCEPT !.start_address = start], buf, "Ok",
         buf_len - BufLen(buf), [g EXCEPT !.fresh = FALSE])

\* the arms StartSegmentAddress / StartLinearAddress of the match
read_start(self, start, buf, buf_len, g) ==
  pull([self EXCEPT !.start_address = start, !.record = None],
       buf, buf_len,
       LogFrame([g EXCEPT !.fresh = FALSE], self,
                [self EXCEPT !.start_address = start, !.record = None],
                buf, buf))

\* read_copy that forgets `self.record_pos += buf.len()`
read_copy_keeps_pos(self, value, buf, buf_len, g) ==
  IF BufLen(buf) = 0
    THEN Return(self, buf, "Ok", buf_len, g)
  ELSE IF Len(value) >= BufLen(buf)
    THEN LET sum == Add32(self.read_bytes, FromUsize(BufLen(buf)))
             g1 == IF sum.overflow THEN Overflowed(g) ELSE g
             buf1 == CopyFromSlice(buf, SubSeq(value, 1, BufLen(buf)))
         IN  IF sum.overflow /\ g.checks
               THEN Return(self, buf1, "panic", 0, g1)
               ELSE Return([self EXCEPT !.read_bytes = sum.value],
                           buf1, "Ok", buf_len, g1)
  ELSE LET sum == Add32(self.read_bytes, FromUsize(Len(value)))
           g1 == IF sum.overflow THEN Overflowed(g) ELSE g
           buf1 == Advance(CopyFromSlice(buf, value), Len(value))
       IN  IF sum.overflow /\ g.checks
             THEN Return(self, buf1, "panic", 0, g1)
             ELSE pull([self EXCEPT !.read_bytes = sum.value,
                                    !.record = None,
                                    !.record_pos = 0],
                       buf1, buf_len, g1)

\* read_copy that returns Ok(buf.len()), the length of the slice left, where
\* the code returns Ok(buf_len)
read_copy_rest_len(self, value, buf, buf_len, g) ==
  IF BufLen(buf) = 0
    THEN Return(self, buf, "Ok", buf_len, g)
  ELSE IF Len(value) >= BufLen(buf)
    THEN LET sum == Add32(self.read_bytes, FromUsize(BufLen(buf)))
             g1 == IF sum.overflow THEN Overflowed(g) ELSE g
             buf1 == CopyFromSlice(buf, SubSeq(value, 1, BufLen(buf)))
             self1 == [self EXCEPT !.record_pos = self.record_pos + BufLen(buf)]
         IN  IF sum.overflow /\ g.checks
               THEN Return(self1, buf1, "panic", 0, g1)
               ELSE Return([self1 EXCEPT !.read_bytes = sum.value],
                           buf1, "Ok", BufLen(buf), g1)
  ELSE LET sum == Add32(self.read_bytes, FromUsize(Len(value)))
           g1 == IF sum.overflow THEN Overflowed(g) ELSE g
           buf1 == Advance(CopyFromSlice(buf, value), Len(value))
       IN  IF sum.overflow /\ g.checks
             THEN Return(self, buf1, "panic", 0, g1)
             ELSE pull([self EXCEPT !.read_bytes = sum.value,
                                    !.record = None,
                                    !.record_pos = 0],
                       buf1, buf_len, g1)

\* read_copy that counts the whole payload left, `self.read_bytes +=
\* value.len()`, when only buf.len() bytes of it fit
read_copy_counts_value(self, value, buf, buf_len, g) ==
  IF BufLen(buf) = 0
    THEN Return(self, buf, "Ok", buf_len, g)
  ELSE IF Len(value) >= BufLen(buf)
    THEN LET sum == Add32(self.read_bytes, FromUsize(Len(value)))
             g1 == IF sum.overflow THEN Overflowed(g) ELSE g
             buf1 == CopyFromSlice(buf, SubSeq(value, 1, BufLen(buf)))
             self1 == [self EXCEPT !.record_pos = self.record_pos + BufLen(buf)]
         IN  IF sum.overflow /\ g.checks
               THEN Return(self1, buf1, "panic", 0, g1)
               ELSE Return([self1 EXCEPT !.read_bytes = sum.value],
                           buf1, "Ok", buf_len, g1)
  ELSE LET sum == Add32(self.read_bytes, FromUsize(Len(value)))
           g1 == IF sum.overflow THEN Overflowed(g) ELSE g
           buf1 == Advance(CopyFromSlice(buf, value), Len(value))
       IN  IF sum.overflow /\ g.checks
             THEN Return(self, buf1, "panic", 0, g1)
             ELSE pull([self EXCEPT !.read_bytes = sum.value,
                                    !.record = None,
                                    !.record_pos = 0],
                       buf1, buf_len, g1)

\* read_copy that forgets `self.record_pos = 0` when the record is done
read_copy_pos_not_reset(self, value, buf, buf_len, g) ==
  IF BufLen(buf) = 0
    THEN Return(self, buf, "Ok", buf_len, g)
  ELSE IF Len(value) >= BufLen(buf)
    THEN LET sum == Add32(self.read_bytes, FromUsize(BufLen(buf)))
             g1 == IF sum.overflow THEN Overflowed(g) ELSE g
             buf1 == CopyFromSlice(buf, SubSeq(value, 1, BufLen(buf)))
             self1 == [self EXCEPT !.record_pos = self.record_pos + BufLen(buf)]
         IN  IF sum.overflow /\ g.checks
               THEN Return(self1, buf1, "panic", 0, g1)
               ELSE Return([self1 EXCEPT !.read_bytes = sum.value],
                           buf1, "Ok", buf_len, g1)
  ELSE LET sum == Add32(self.read_bytes, FromUsize(Len(value)))
           g1 == IF sum.overflow THEN Overflowed(g) ELSE g
           buf1 == Advance(CopyFromSlice(buf, value), Len(value))
       IN  IF sum.overflow /\ g.checks
             THEN Return(self, buf1, "panic", 0, g1)
             ELSE pull([self EXCEPT !.read_bytes = sum.value,
                                    !.record = None],
                       buf1, buf_len, g1)

\* the second half of the Data arm: copy the payload that is left
read_copy(self, value, buf, buf_len, g) ==
  IF BufLen(buf) = 0
    THEN Return(self, buf, "Ok", buf_len, g)
  ELSE IF Len(value) >= BufLen(buf)
    THEN LET sum == Add32(self.read_bytes, FromUsize(BufLen(buf)))
             g1 == IF sum.overflow THEN Overflowed(g) ELSE g
             buf1 == CopyFromSlice(buf, SubSeq(value, 1, BufLen(buf)))
             self1 == [self EXCEPT !.record_pos = self.record_pos + BufLen(buf)]
         IN  IF sum.overflow /\ g.checks
               THEN Return(self1, buf1, "panic", 0, g1)
               ELSE Return([self1 EXCEPT !.read_bytes = sum.value],
                           buf1, "Ok", buf_len, g1)
  ELSE LET sum == Add32(self.read_bytes, FromUsize(Len(value)))
           g1 == IF sum.overflow THEN Overflowed(g) ELSE g
           buf1 == Advance(CopyFromSlice(buf, value), Len(value))
       IN  IF sum.overflow /\ g.checks
             THEN Return(self, buf1, "panic", 0, g1)
             ELSE pull([self EXCEPT !.read_bytes = sum.value,
                                    !.record = None,
                                    !.record_pos = 0],
                       buf1, buf_len, g1)

\* read_data that takes record_address itself for the length of the gap,
\* without subtracting read_bytes
read_data_gap_from_zero(self, buf, buf_len, g) ==
  LET record == self.record
      value == SubSeq(record.value, self.record_pos + 1, Len(record.value))
      ra == Add32(self.address, FromU16(record.a))
      record_address == ra.value
      g0 == IF ra.overflow THEN AddressOverflowed(g) ELSE g
  IN  IF ra.overflow /\ g.checks
        THEN Return(self, buf, "panic", 0, g0)
      ELSE IF Gt32(record_address, self.read_bytes)
        THEN LET zero_bytes_left == record_address
                 zeroed_len == IF Ge32(zero_bytes_left, FromUsize(BufLen(buf)))
                                 THEN BufLen(buf)
                                 ELSE zero_bytes_left[2]
                 buf1 == Advance(FillZero(buf, zeroed_len), zeroed_len)
                 sum == Add32(self.read_bytes, FromUsize(zeroed_len))
                 g1 == LogData(IF sum.overflow THEN Overflowed(g0) ELSE g0,
                               self, record_address, zeroed_len,
                               BufLen(buf1) > 0 /\ Len(value) > 0,
                               IF Len(value) > 0 THEN value[1] ELSE 0)
             IN  IF sum.overflow /\ g.checks
                   THEN Return(self, buf1, "panic", 0, g1)
                   ELSE read_copy([self EXCEPT !.read_bytes = sum.value],
                                  value, buf1, buf_len, g1)
      ELSE read_copy(self, value, buf, buf_len,
                     LogData(g0, self, record_address, 0,
                             BufLen(buf) > 0 /\ Len(value) > 0,
                             IF Len(value) > 0 THEN value[1] ELSE 0))

\* read_data that computes the gap without the test
\* `record_address > self.read_bytes`
read_data_gap_untested(self, buf, buf_len, g) ==
  LET record == self.record
      value == SubSeq(record.value, self.record_pos + 1, Len(record.value))
      ra == Add32(self.address, FromU16(record.a))
      record_address == ra.value
      g0 == IF ra.overflow THEN AddressOverflowed(g) ELSE g
  IN  IF ra.overflow /\ g.checks
        THEN Return(self, buf, "panic", 0, g0)
      ELSE LET zero_bytes_left == Sub32(record_address, self.read_bytes).value
               zeroed_len == IF Ge32(zero_bytes_left, FromUsize(BufLen(buf)))
                               THEN BufLen(buf)
                               ELSE zero_bytes_left[2]
               buf1 == Advance(FillZero(buf, zeroed_len), zeroed_len)
               sum == Add32(self.read_bytes, FromUsize(zeroed_len))
               g1 == LogData(IF sum.overflow THEN Overflowed(g0) ELSE g0,
                             self, record_address, zeroed_len,
                             BufLen(buf1) > 0 /\ Len(value) > 0,
                             IF Len(value) > 0 THEN value[1] ELSE 0)
           IN  IF sum.overflow /\ g.checks
                 THEN Return(self, buf1, "panic", 0, g1)
                 ELSE read_copy([self EXCEPT !.read_bytes = sum.value],
                                value, buf1, buf_len, g1)

\* the first half of the Data arm: close the gap before the record
read_data(self, buf, buf_len, g) ==
  LET record == self.record
      value == SubSeq(record.value, self.record_pos + 1, Len(record.value))
      ra == Add32(self.address, FromU16(record.a))
      record_address == ra.value
      g0 == IF ra.overflow THEN AddressOverflowed(g) ELSE g
  IN  IF ra.overflow /\ g.checks
        THEN Return(self, buf, "panic", 0, g0)
      ELSE IF Gt32(record_address, self.read_bytes)
        THEN LET zero_bytes_left == Sub32(record_address, self.read_bytes).value
                 zeroed_len == IF Ge32(zero_bytes_left, FromUsize(BufLen(buf)))
                                 THEN BufLen(buf)
                                 ELSE zero_bytes_left[2]
                 buf1 == Advance(FillZero(buf, zeroed_len), zeroed_len)
                 sum == Add32(self.read_bytes, FromUsize(zeroed_len))
                 g1 == LogData(IF sum.overflow THEN Overflowed(g0) ELSE g0,
                               self, record_address, zeroed_len,
                               BufLen(buf1) > 0 /\ Len(value) > 0,
                               IF Len(value) > 0 THEN value[1] ELSE 0)
             IN  IF sum.overflow /\ g.checks
                   THEN Return(self, buf1, "panic", 0, g1)
                   ELSE read_copy([self EXCEPT !.read_bytes = sum.value],
                                  value, buf1, buf_len, g1)
      ELSE read_copy(self, value, buf, buf_len,
                     LogData(g0, self, record_address, 0,
                             BufLen(buf) > 0 /\ Len(value) > 0,
                             IF Len(value) > 0 THEN value[1] ELSE 0))

\* read_loop whose EndOfFile arm consumes the record and goes on, like the
\* start-address arms
read_loop_eof_consumed(self, buf, buf_len, g) ==
  LET record == self.record IN
  CASE record.k = "ExtendedSegmentAddress" ->
         read_address(self, Shl(record.a, 4), buf, buf_len, g)
    [] record.k = "ExtendedLinearAddress" ->
         read_address(self, Shl(record.a, 16), buf, buf_len, g)
    [] record.k = "Data" ->
         read_data(self, buf, buf_len, g)
    [] record.k = "StartSegmentAddress" ->
         read_start(self, Segment(record.a, record.b), buf, buf_len, g)
    [] record.k = "StartLinearAddress" ->
         read_start(self, Linear(record.a, record.b), buf, buf_len, g)
    [] record.k = "EndOfFile" ->
         pull([self EXCEPT !.record = None], buf, buf_len,
              [g EXCEPT !.fresh = FALSE, !.closed = TRUE])
    [] OTHER ->
         pull(self, buf, buf_len, g)

\* read_loop whose start-address arms keep the first start address they
\* stored
read_loop_first_start_kept(self, buf, buf_len, g) ==
  LET record == self.record IN
  CASE record.k = "ExtendedSegmentAddress" ->
         read_address(self, Shl(record.a, 4), buf, buf_len, g)
    [] record.k = "ExtendedLinearAddress" ->
         read_address(self, Shl(record.a, 16), buf, buf_len, g)
    [] record.k = "Data" ->
         read_data(self, buf, buf_len, g)
    [] record.k = "StartSegmentAddress" ->
         IF self.start_address = StartNone
           THEN read_start(self, Segment(record.a, record.b), buf, buf_len, g)
           ELSE read_start(self, self.start_address, buf, buf_len, g)
    [] record.k = "StartLinearAddress" ->
         IF self.start_address = StartNone
           THEN read_start(self, Linear(record.a, record.b), buf, buf_len, g)
           ELSE read_start(self, self.start_address, buf, buf_len, g)
    [] record.k = "EndOfFile" ->
         Return(self, buf, "Ok", buf_len - BufLen(buf),
                [g EXCEPT !.fresh = FALSE, !.closed = TRUE])
    [] OTHER ->
         pull(self, buf, buf_len, g)

\* `if let Some(ref record) = self.record { match record { ... } }`
read_loop(self, buf, buf_len, g) ==
  LET record == self.record IN
  CASE record.k = "ExtendedSegmentAddress" ->
         read_address(self, Shl(record.a, 4), buf, buf_len, g)
    [] record.k = "ExtendedLinearAddress" ->
         read_address(self, Shl(record.a, 16), buf, buf_len, g)
    [] record.k = "Data" ->
         read_data(self, buf, buf_len, g)
    [] record.k = "StartSegmentAddress" ->
         read_start(self, Segment(record.a, record.b), buf, buf_len, g)
    [] record.k = "StartLinearAddress" ->
         read_start(self, Linear(record.a, record.b), buf, buf_len, g)
    [] record.k = "EndOfFile" ->
         Return(self, buf, "Ok", buf_len - BufLen(buf),
                [g EXCEPT !.fresh = FALSE, !.closed = TRUE])
    [] OTHER ->
         pull(self, buf, buf_len, g)

\* pull that takes an error of the producer for the end of the stream
pull_err_ends(self, buf, buf_len, g) ==
  IF self.record = None
    THEN LET nx == next(self.reader, input)
             self1 == [self EXCEPT !.reader = nx.reader]
             g1 == [g EXCEPT !.pulls = g.pulls + 1, !.pre_pull = self,
                             !.pulled_err = (nx.item = ReaderError)]
         IN  IF nx.item = None \/ nx.item = ReaderError
               THEN Return(self1, buf, "Ok", buf_len - BufLen(buf),
                           [g1 EXCEPT !.closed = (nx.item = None)])
             ELSE read_loop([self1 EXCEPT !.record = nx.item], buf, buf_len,
                            [g1 EXCEPT !.fresh = TRUE])
    ELSE read_loop(self, buf, buf_len, g)

\* `if self.record.is_none() { if let Some(record) = self.reader.next() ... }`
pull(self, buf, buf_len, g) ==
  IF self.record = None
    THEN LET nx == next(self.reader, input)
             self1 == [self EXCEPT !.reader = nx.reader]
             g1 == [g EXCEPT !.pulls = g.pulls + 1, !.pre_pull = self,
                             !.pulled_err = (nx.item = ReaderError)]
         IN  IF nx.item = None
               THEN Return(self1, buf, "Ok", buf_len - BufLen(buf),
                           [g1 EXCEPT !.closed = TRUE])
             ELSE IF nx.item = ReaderError
               THEN Return(self1, buf, "Err", 0, g1)
             ELSE read_loop([self1 EXCEPT !.record = nx.item], buf, buf_len,
                            [g1 EXCEPT !.fresh = TRUE])
    ELSE read_loop(self, buf, buf_len, g)

\* fn read(&mut self, mut buf: &mut [u8]) -> Result<usize, std::io::Error>
read(self, buf_len, g) == read_loop(self, BufNew(buf_len), buf_len, g)

\* ----------------------------------------------------------------- inputs
\* the items the producer is made to deliver
Alphabet ==
  { ExtendedSegmentAddress(0), ExtendedSegmentAddress(1),
    ExtendedSegmentAddress(2), ExtendedLinearAddress(1),
    Data(0, << 240, 255 >>), Data(2, << 170 >>),
    StartSegmentAddress(1, 2), StartLinearAddress(2048, 0),
    EndOfFile, ReaderError }

\* the error-free items two compared converters are given
PairAlphabet ==
  { ExtendedSegmentAddress(1), ExtendedSegmentAddress(2),
    Data(0, << 240, 255 >>), Data(2, << 170 >>),
    StartLinearAddress(2048, 0), EndOfFile }

SeqsUpTo(S, n) == UNION { [1..k -> S] : k \in 0..n }

\* ------------------------------------------------------------- the caller
\* What the caller has seen of one converter:
\*   output     the bytes handed to it, &buf[..n] of every Ok(n), in order
\*   log        Data records dispatched so far
\*   addr_count address records processed so far
\*   closed     some call processed EndOfFile or found the producer exhausted
\*   failed     some call returned Err
\*   halted     some call panicked
\*   shorts     number of calls that returned Ok(n) with n < buf.len(), up to 2
\*   underflowed   `addr - self.base_address` went below 0 in some call
\*   ra_overflowed `self.address + *offset as u32` went past u32::MAX in
\*                 some call
CallerNew ==
  [output |-> << >>, log |-> << >>, addr_count |-> 0,
   closed |-> FALSE, failed |-> FALSE, halted |-> FALSE, shorts |-> 0,
   underflowed |-> FALSE, ra_overflowed |-> FALSE]

NoCall ==
  [len |-> 0, kind |-> "none", n |-> 0, mem |-> << >>,
   before |-> new(ReaderNew), closed_before |-> FALSE, pulls |-> 0, pre_pull |-> new(ReaderNew),
   pulled_err |-> FALSE, addr_events |-> << >>, frames |-> << >>,
   underflow |-> FALSE]

Build(checks) == IF checks THEN "debug" ELSE "release"

\* the builds the program may still turn out to be
Builds ==
  IF overflow_checks = "unknown" THEN BOOLEAN ELSE {overflow_checks = "debug"}

\* the outcomes of the call binary_reader.read(&mut buf) with
\* buf.len() = len: one per build, and one only unless the call overflows
Called(self, clr, len) ==
  { read(self, len, Observe(self, checks, clr.log, clr.addr_count)) :
      checks \in Builds }

\* the caller after the call: it keeps &buf[..n] of an Ok(n)
Served(clr, r, len) ==
  [output |-> IF r.kind = "Ok"
                THEN clr.output \o [i \in 1..r.n |-> r.mem[i].byte]
                ELSE clr.output,
   log |-> r.g.log,
   addr_count |-> r.g.addr_count,
   closed |-> clr.closed \/ r.g.closed,
   failed |-> clr.failed \/ r.kind = "Err",
   halted |-> r.kind = "panic",
   shorts |-> IF r.kind = "Ok" /\ r.n < len /\ clr.shorts < 2
                THEN clr.shorts + 1 ELSE clr.shorts,
   underflowed |-> clr.underflowed \/ r.g.underflow,
   ra_overflowed |-> clr.ra_overflowed \/ r.g.ra_overflow]

CallOf(self, clr, r, len) ==
  [len |-> len, kind |-> r.kind, n |-> r.n, mem |-> r.mem,
   before |-> self, closed_before |-> clr.closed, pulls |-> r.g.pulls, pre_pull |-> r.g.pre_pull,
   pulled_err |-> r.g.pulled_err, addr_events |-> r.g.addr_events,
   frames |-> r.g.frames, underflow |-> r.g.underflow]

Init ==
  /\ input \in SeqsUpTo(Alphabet, MaxRecords)
  /\ overflow_checks = "unknown"
  /\ binary_reader = new(ReaderNew)
  /\ caller = CallerNew
  /\ call = NoCall
  /\ binary_reader2 = new(ReaderNew)
  /\ caller2 = CallerNew
  /\ call2 = NoCall

\* binary_reader.read(&mut buf), buf.len() = len
Read(len) ==
  /\ ~caller.halted
  /\ Len(caller.output) + len <= MaxOut
  /\ \E r \in Called(binary_reader, caller, len) :
       /\ binary_reader' = r.self
       /\ caller' = Served(caller, r, len)
       /\ call' = CallOf(binary_reader, caller, r, len)
       /\ overflow_checks' = IF r.g.overflowed THEN Build(r.g.checks)
                                               ELSE overflow_checks
  /\ UNCHANGED << input, binary_reader2, caller2, call2 >>

\* binary_reader2.read(&mut buf), buf.len() = len
Read2(len) ==
  /\ ~caller2.halted
  /\ Len(caller2.output) + len <= MaxPairOut
  /\ \E r \in Called(binary_reader2, caller2, len) :
       /\ binary_reader2' = r.self
       /\ caller2' = Served(caller2, r, len)
       /\ call2' = CallOf(binary_reader2, caller2, r, len)
       /\ overflow_checks' = IF r.g.overflowed THEN Build(r.g.checks)
                                               ELSE overflow_checks
  /\ UNCHANGED << input, binary_reader, caller, call >>

Next == \E len \in 0..MaxBuf : Read(len)

Spec == Init /\ [][Next]_vars

\* Two converters over one error-free input, each read with its own
\* sequence of positive buffer lengths.
InitPair ==
  /\ input \in SeqsUpTo(PairAlphabet, MaxPairRecords)
  /\ overflow_checks = "unknown"
  /\ binary_reader = new(ReaderNew)
  /\ caller = CallerNew
  /\ call = NoCall
  /\ binary_reader2 = new(ReaderNew)
  /\ caller2 = CallerNew
  /\ call2 = NoCall

ReadFirst(len) == Len(caller.output) + len <= MaxPairOut /\ Read(len)

NextPair ==
  \/ \E len \in 1..MaxBuf : ReadFirst(len)
  \/ \E len \in 1..MaxBuf : Read2(len)

SpecPair == InitPair /\ [][NextPair]_vars

\* the stream is closed: an EndOfFile record is held, or the producer has
\* been found exhausted
Terminated(self) == self.record = EndOfFile \/ self.reader.finished

\* the fields of the converter other than its producer
Fields(self) == [self EXCEPT !.reader = ReaderNew]

IsPrefix(s, t) == Len(s) <= Len(t) /\ SubSeq(t, 1, Len(s)) = s

\* ================================================================= claims

\* C1: chunk-size invariance. Two converters over the same error-free record
\* sequence, read with any two sequences of positive buffer lengths, hand
\* out byte-identical streams: at every moment one output is a prefix of
\* the other, and once both streams are closed the outputs are equal.
C1_ChunkSizeInvariance ==
  /\ IsPrefix(caller.output, caller2.output)
        \/ IsPrefix(caller2.output, caller.output)
  /\ Terminated(binary_reader) /\ Terminated(binary_reader2)
        => caller.output = caller2.output

\* both streams are closed, each by a call that still handed out bytes, and
\* the two closing calls started at different places of a stream that holds
\* zero fill and payload: the two converters were read in different chunks
C1_Witness ==
  /\ Terminated(binary_reader) /\ Terminated(binary_reader2)
  /\ call.n > 0 /\ call2.n > 0
  /\ call.before.read_bytes # call2.before.read_bytes
  /\ Len(caller.output) >= 4
  /\ \E i \in 1..Len(caller.output) : caller.output[i] = 0
  /\ caller2.output = caller.output

\* C2 (as stated): a count below buffer.length occurs exactly once over the
\* lifetime of a converter.
C2_ShortCountOnce == caller.shorts <= 1

\* C2 (amended): a call returns the full buffer length unless the stream is
\* closed when it returns; the call that closes the stream returns less than
\* a non-empty buffer's length; every call after it returns 0.
C2_ShortCountAtClose ==
  call.kind = "Ok" =>
    /\ ~Terminated(binary_reader) => call.n = call.len
    /\ ~Terminated(call.before) /\ Terminated(binary_reader) /\ call.len > 0
          => call.n < call.len
    /\ Terminated(call.before) => call.n = 0

\* a full call, then the call that closes the stream and returns a short,
\* non-zero count
C2_Witness ==
  /\ call.kind = "Ok" /\ ~Terminated(call.before) /\ Terminated(binary_reader)
  /\ 0 < call.n /\ call.n < call.len
  /\ Len(caller.output) > call.n
  /\ caller.shorts = 1

\* C3: once the stream is closed (EndOfFile processed or the producer found
\* exhausted), every later call returns Ok(0), whatever its buffer length,
\* and never an error.
C3_ClosedStaysClosed ==
  call.closed_before => call.kind = "Ok" /\ call.n = 0

\* a call with a non-empty buffer on a stream closed by EndOfFile, while the
\* producer still has an error to deliver after the EndOfFile record
C3_Witness ==
  /\ call.closed_before /\ call.before.record = EndOfFile
  /\ call.len > 0 /\ call.kind = "Ok"
  /\ binary_reader.reader.pos <= Len(input)
  /\ input[binary_reader.reader.pos] = ReaderError

\* C4: a call that returns Ok(n) has 0 <= n <= buffer.length and wrote
\* exactly the first n bytes of the caller's buffer.
C4_WrittenPrefix ==
  call.kind = "Ok" =>
    /\ call.n \in 0..call.len
    /\ \A i \in 1..call.len : call.mem[i].set <=> i <= call.n

\* a call that wrote zero fill and payload and left the end of the buffer
C4_Witness ==
  /\ call.kind = "Ok" /\ 1 < call.n /\ call.n < call.len
  /\ call.mem[1].byte = 0 /\ call.mem[call.n].byte # 0

\* the concatenation of the payloads of the Data records of s
RECURSIVE Payloads(_)
Payloads(s) ==
  IF s = << >> THEN << >>
  ELSE (IF Head(s).k = "Data" THEN Head(s).value ELSE << >>) \o Payloads(Tail(s))

IsAddressRecord(r) ==
  r.k \in {"ExtendedSegmentAddress", "ExtendedLinearAddress"}

\* s is contiguous Data records that start at offset 0 and leave no gap,
\* optionally after one address record and optionally before one EndOfFile
Contiguous(s) ==
  LET lead == IF s # << >> /\ IsAddressRecord(s[1]) THEN 1 ELSE 0
      tail == IF Len(s) > lead /\ s[Len(s)] = EndOfFile THEN 1 ELSE 0
      body == SubSeq(s, lead + 1, Len(s) - tail)
  IN  \A i \in 1..Len(body) :
        /\ body[i].k = "Data"
        /\ body[i].a = Len(Payloads(SubSeq(body, 1, i - 1)))

\* C5: byte-exact reconstruction. For contiguous Data records from offset 0
\* (optionally after one address record), the bytes handed out are always a
\* prefix of the concatenation of the payloads in record order, and are
\* exactly that concatenation once the stream is closed.
C5_ByteExact ==
  Contiguous(input) =>
    /\ IsPrefix(caller.output, Payloads(input))
    /\ Terminated(binary_reader) => caller.output = Payloads(input)

\* two contiguous Data records after an address record, drained, with the
\* first payload split across two calls
C5_Witness ==
  /\ Contiguous(input) /\ Len(input) = 3 /\ IsAddressRecord(input[1])
  /\ Terminated(binary_reader)
  /\ call.before.record_pos = 1
  /\ Len(caller.output) = 3

\* C6: gap filling is exact. For every Data record whose record_address was
\* above read_bytes when it was first dispatched and whose payload has begun:
\* exactly record_address - read_bytes zero bytes were written for it, its
\* first payload byte went out at stream position record_address, and (no
\* call having failed) the output holds those zeros and then that byte.
C6_GapExact ==
  \A i \in 1..Len(caller.log) :
    LET e == caller.log[i] IN
    Gt32(e.ra, e.from) /\ e.at # << >> =>
      /\ e.at[1] = e.ra
      /\ FromUsize(e.zeroed) = Sub32(e.ra, e.from).value
      /\ ~caller.failed =>
           /\ \A j \in (e.from[2] + 1)..e.ra[2] :
                 j <= Len(caller.output) => caller.output[j] = 0
           /\ e.ra[2] < Len(caller.output) => caller.output[e.ra[2] + 1] = e.byte

\* a gap of 16 bytes opened by an address record, closed over several calls,
\* the payload byte handed out behind it
C6_Witness ==
  /\ caller.log # << >>
  /\ LET e == caller.log[Len(caller.log)] IN
       /\ e.at # << >> /\ e.zeroed = 16 /\ e.from # Zero32
       /\ Len(caller.output) > e.ra[2]
  /\ Gt32(call.before.read_bytes, caller.log[Len(caller.log)].from)
  /\ ~caller.failed

\* C7 (as stated): the first address record processed sets base_address to
\* its value and leaves address unchanged; every later one leaves
\* base_address unchanged and sets address to its value minus base_address.
C7_BaseFixedByFirst ==
  \A i \in 1..Len(call.addr_events) :
    LET e == call.addr_events[i] IN
    IF e.nth = 1
      THEN e.base1 = e.addr /\ e.address1 = e.address0
      ELSE e.base1 = e.base0 /\ e.address1 = Sub32(e.addr, e.base0).value

\* C7 (amended): an address record processed while base_address is 0 and no
\* byte has been emitted sets base_address to its value and leaves address
\* unchanged; any other address record leaves base_address unchanged and
\* sets address to its value minus base_address (modulo 2^32).
C7_BaseFixedWhileUnset ==
  \A i \in 1..Len(call.addr_events) :
    LET e == call.addr_events[i] IN
    IF e.base0 = Zero32 /\ e.read_bytes0 = Zero32
      THEN e.base1 = e.addr /\ e.address1 = e.address0
      ELSE e.base1 = e.base0 /\ e.address1 = Sub32(e.addr, e.base0).value

\* one call processed a first address record of value 0, a second one that
\* then set the base, and a third one that moved address relative to it
C7_Witness ==
  /\ Len(call.addr_events) = 3
  /\ call.addr_events[1].addr = Zero32
  /\ call.addr_events[2].base0 = Zero32 /\ call.addr_events[2].base1 # Zero32
  /\ call.addr_events[3].base1 = call.addr_events[2].base1
  /\ call.addr_events[3].address1 # Zero32

\* C8: a call with a zero-length buffer returns 0, pulls no record from the
\* producer and leaves the converter unchanged.
C8_EmptyBufferConsumesNothing ==
  call.kind # "none" /\ call.len = 0 =>
    /\ call.kind = "Ok" /\ call.n = 0
    /\ call.pulls = 0
    /\ binary_reader = call.before

\* C9: a call fails exactly when the producer reports an error on a pull of
\* that call, and the failed call leaves the converter's fields as they were
\* just before the failing pull.
C9_ProducerErrorSurfaces ==
  /\ call.pulled_err <=> call.kind = "Err"
  /\ call.kind = "Err" => Fields(binary_reader) = Fields(call.pre_pull)

\* a call that had already copied payload when the producer failed
C9_Witness ==
  /\ call.kind = "Err"
  /\ binary_reader.read_bytes # call.before.read_bytes
  /\ binary_reader.reader.pos = call.pre_pull.reader.pos + 1

\* C10: after any calls that returned (Ok or Err), read_bytes is the number
\* of bytes handed to the caller.
C10_ReadBytesIsHandedOut ==
  ~caller.halted => binary_reader.read_bytes = FromUsize(Len(caller.output))

\* C11: read_bytes never decreases from one call to the next, and a call
\* with a buffer of len bytes raises it by len at most, whatever the call
\* returns; so after any calls it is at most the sum of their buffer lengths.
C11_ReadBytesGrowsWithinBuffer ==
  /\ Ge32(binary_reader.read_bytes, call.before.read_bytes)
  /\ Ge32(FromUsize(call.len),
          Sub32(binary_reader.read_bytes, call.before.read_bytes).value)

\* a call that failed after it had raised read_bytes, by less than its buffer
C11_Witness ==
  /\ call.kind = "Err"
  /\ call.len = 3
  /\ Sub32(binary_reader.read_bytes, call.before.read_bytes).value = FromUsize(2)
  /\ call.before.read_bytes # Zero32

\* the records the converter has taken from the producer so far
Pulled(self) == SubSeq(input, 1, self.reader.pos - 1)

IsStartRecord(record) ==
  record.k \in {"StartSegmentAddress", "StartLinearAddress"}

\* the positions in records of the start-address records the converter has
\* processed: every one it has taken, since it processes one as it takes it
StartsIn(records) == { i \in 1..Len(records) : IsStartRecord(records[i]) }

\* the StartAddress that a start-address record carries
StartOf(record) ==
  IF record.k = "StartSegmentAddress"
    THEN Segment(record.a, record.b)
    ELSE Linear(record.a, record.b)

\* C12: start_address() is None until a start-address record has been
\* processed, and from then on it is what the latest start-address record
\* processed carries, whatever other records were processed and whatever the
\* calls returned.
C12_StartAddressIsLatest ==
  LET records == Pulled(binary_reader)
      starts == StartsIn(records)
  IN  start_address(binary_reader) =
        IF starts = {}
          THEN StartNone
          ELSE StartOf(records[CHOOSE i \in starts : \A j \in starts : j <= i])

\* a second start-address record has replaced the first, and the call that
\* then failed has left it in place
C12_Witness ==
  /\ Len(input) = 3
  /\ input[1] = StartSegmentAddress(1, 2)
  /\ input[2] = StartLinearAddress(2048, 0)
  /\ input[3] = ReaderError
  /\ call.kind = "Err"
  /\ start_address(binary_reader) = Linear(2048, 0)

\* C13: once an EndOfFile record has been taken from the producer, no call
\* takes another item: the converter stays on that record, and a call that
\* starts on it asks the producer for nothing, hands out nothing and leaves
\* every field, start_address included, as it was, whatever follows the
\* EndOfFile record in the input.
C13_NothingPulledAfterEndOfFile ==
  /\ \A i \in 1..Len(input) :
       input[i] = EndOfFile /\ i < binary_reader.reader.pos
         => /\ binary_reader.reader.pos = i + 1
            /\ binary_reader.record = EndOfFile
  /\ call.before.record = EndOfFile
       => /\ call.pulls = 0
          /\ call.kind = "Ok"
          /\ call.n = 0
          /\ binary_reader = call.before

\* a call with room in its buffer that started on the EndOfFile record, with
\* an error of the producer and a start-address record still behind it
C13_Witness ==
  /\ Len(input) = 3
  /\ input[1] = EndOfFile
  /\ input[2] = ReaderError
  /\ input[3] = StartLinearAddress(2048, 0)
  /\ call.before.record = EndOfFile
  /\ call.len = 3
  /\ start_address(binary_reader) = StartNone

\* the address an address record stands for: `(*addr as u32) << 4` of
\* ExtendedSegmentAddress, `(*addr as u32) << 16` of ExtendedLinearAddress
Shifted(k, raw) ==
  Shl(raw, IF k = "ExtendedSegmentAddress" THEN 4 ELSE 16)

\* where a Data record lands: record_address is address + offset, and the
\* first byte of its payload goes to that position of the output unless the
\* output is already past it
DataLands(e) ==
  /\ e.ra = Add32(e.address, FromU16(e.offset)).value
  /\ Ge32(e.ra, e.from) /\ e.at # << >> => e.at[1] = e.ra

\* address is what the latest address record of the call left
AddressIsLatest ==
  binary_reader.address =
    IF call.addr_events = << >>
      THEN call.before.address
      ELSE call.addr_events[Len(call.addr_events)].address1

\* C14 as stated: every address record after the first one sets address to
\* its shifted value minus base_address, base_address being fixed by the
\* first one, and a following Data record lands at address + offset.
C14_AddressRelativeAfterFirst ==
  /\ \A i \in 1..Len(call.addr_events) :
       LET e == call.addr_events[i]
       IN  e.nth >= 2
             => /\ e.addr = Shifted(e.k, e.raw)
                /\ e.address1 = Sub32(e.addr, e.base0).value
                /\ e.base1 = e.base0
  /\ AddressIsLatest
  /\ \A i \in 1..Len(caller.log) : DataLands(caller.log[i])

\* C14: an address record processed when base_address is not 0 or a byte has
\* been handed out sets address to its shifted value minus base_address in
\* u32 arithmetic and leaves base_address alone; one processed while
\* base_address is 0 and nothing has been handed out sets base_address
\* instead and leaves address alone; a following Data record lands at
\* address + offset.
C14_AddressRelativeOnceFixed ==
  /\ \A i \in 1..Len(call.addr_events) :
       LET e == call.addr_events[i]
       IN  /\ e.addr = Shifted(e.k, e.raw)
           /\ IF e.base0 = Zero32 /\ e.read_bytes0 = Zero32
                THEN e.base1 = e.addr /\ e.address1 = e.address0
                ELSE /\ e.address1 = Sub32(e.addr, e.base0).value
                     /\ e.base1 = e.base0
  /\ AddressIsLatest
  /\ \A i \in 1..Len(caller.log) : DataLands(caller.log[i])

\* with base_address at 16, ExtendedSegmentAddress(2) has set address to 16
\* and the Data record with offset 2 behind it has landed at position 18
C14_Witness ==
  /\ binary_reader.base_address = FromUsize(16)
  /\ binary_reader.address = FromUsize(16)
  /\ Len(caller.log) = 1
  /\ caller.log[1].offset = 2
  /\ caller.log[1].at = << FromUsize(18) >>
  /\ caller.log[1].from = Zero32

\* the Data record of log entry e starts at or behind the output position
Overlaps(e) == ~Gt32(e.ra, e.from)

\* C15: a Data record whose record_address is not past read_bytes gets no
\* zero fill; its payload goes to the output position of the moment, after
\* the bytes already handed out; read_bytes has grown by the part of the
\* payload copied so far, and by the length of the payload once the record
\* is done.
C15_OverlapAppends ==
  \A i \in 1..Len(caller.log) :
    LET e == caller.log[i]
        last == i = Len(caller.log)
        done == ~last \/ binary_reader.record.k # "Data"
        next_from == IF last THEN binary_reader.read_bytes
                             ELSE caller.log[i + 1].from
    IN  Overlaps(e)
          => /\ e.zeroed = 0
             /\ e.at # << >> => e.at[1] = e.from
             /\ done => next_from = Add32(e.from, FromUsize(Len(e.value))).value
             /\ ~done => binary_reader.read_bytes =
                           Add32(e.from, FromUsize(binary_reader.record_pos)).value
             /\ done /\ ~caller.failed /\ e.from[1] = 0
                  /\ e.from[2] + Len(e.value) <= Len(caller.output)
                  => \A j \in 1..Len(e.value) :
                       caller.output[e.from[2] + j] = e.value[j]

\* a second Data record for position 0 has been appended behind the first
C15_Witness ==
  /\ Len(caller.log) = 2
  /\ caller.log[2].ra = Zero32
  /\ caller.log[2].from = FromUsize(2)
  /\ binary_reader.record = None
  /\ binary_reader.read_bytes = FromUsize(4)
  /\ caller.output = << 240, 255, 240, 255 >>

\* C16: an address or start-address record is processed without output:
\* read_bytes, record_pos and the buffer (the bytes written to it and the
\* part still to fill) are the same after the arm as before it, the bytes
\* written before it are still there when the call returns, and the record
\* is gone once its arm has run, so that no call returns holding one.
C16_AddressRecordsEmitNothing ==
  /\ \A i \in 1..Len(call.frames) :
       LET f == call.frames[i]
       IN  /\ f.read_bytes1 = f.read_bytes0
           /\ f.record_pos1 = f.record_pos0
           /\ f.buf1 = f.buf0
           /\ f.record1 = None
           /\ \A j \in 1..f.buf0.off : call.mem[j] = f.buf0.mem[j]
  /\ ~caller.halted =>
       ~(IsAddressRecord(binary_reader.record) \/ IsStartRecord(binary_reader.record))

\* a call that processed an address record and a start-address record
\* after it had written two payload bytes to its buffer, and returned these
\* two bytes
C16_Witness ==
  /\ Len(call.frames) = 2
  /\ call.frames[1].k = "ExtendedSegmentAddress"
  /\ call.frames[2].k = "StartLinearAddress"
  /\ call.frames[1].buf0.off = 2
  /\ call.kind = "Ok"
  /\ call.n = 2
  /\ call.len = 3

\* C17: whenever an address record is processed after base_address has been
\* fixed, `addr - self.base_address` stays in u32: no call sees it go below
\* 0, and every address record processed had addr >= base_address.
C17_NoAddressUnderflow ==
  /\ ~call.underflow
  /\ \A i \in 1..Len(call.addr_events) :
       LET e == call.addr_events[i]
       IN  ~(e.base0 = Zero32 /\ e.read_bytes0 = Zero32)
             => Ge32(e.addr, e.base0)

\* C18: when a call has returned, record_pos is 0 unless a Data record is
\* held, and then it is at most the length of the payload, so that
\* `&value[self.record_pos..]` is in bounds; a held Data record with
\* record_pos > 0 has no gap left before it, read_bytes >= record_address.
C18_CursorInPayload ==
  ~caller.halted =>
    /\ binary_reader.record_pos >= 0
    /\ binary_reader.record.k # "Data" => binary_reader.record_pos = 0
    /\ binary_reader.record.k = "Data" =>
         /\ binary_reader.record_pos <= Len(binary_reader.record.value)
         /\ binary_reader.record_pos > 0 =>
              Ge32(binary_reader.read_bytes,
                   Add32(binary_reader.address,
                         FromU16(binary_reader.record.a)).value)

\* a call has returned in the middle of the payload of a Data record that
\* had a gap before it
C18_Witness ==
  /\ call.kind = "Ok"
  /\ binary_reader.record = Data(0, << 240, 255 >>)
  /\ binary_reader.record_pos = 1
  /\ binary_reader.address = FromUsize(16)
  /\ binary_reader.read_bytes = FromUsize(17)

\* ---------------------------------------------------- the draining caller
\* The loop of hex2bin over an error-free input: read into a non-empty
\* buffer until a call returns fewer bytes than the buffer holds. A panic
\* inside read, and the panic of main on an Err, end the loop as well.
LoopEnded ==
  \/ caller.halted
  \/ call.kind = "Err"
  \/ call.kind = "Ok" /\ call.n < call.len

InitLoop ==
  /\ input \in SeqsUpTo(PairAlphabet, MaxRecords)
  /\ overflow_checks = "unknown"
  /\ binary_reader = new(ReaderNew)
  /\ caller = CallerNew
  /\ call = NoCall
  /\ binary_reader2 = new(ReaderNew)
  /\ caller2 = CallerNew
  /\ call2 = NoCall

\* one turn of the loop: `match binary_reader.read(&mut buf)`
LoopRead(len) == ~LoopEnded /\ Read(len)

NextLoop == \E len \in 1..MaxBuf : LoopRead(len)

\* the loop runs without a pause between its turns, so a turn that can be
\* taken is taken
SpecLoop == InitLoop /\ [][NextLoop]_vars /\ WF_vars(NextLoop)

\* C19: over an error-free input the loop ends only when the stream is
\* drained: by a call that returned fewer bytes than its buffer holds, with
\* the converter on the EndOfFile record or the producer exhausted.
C19_LoopEndsDrained ==
  LoopEnded =>
    /\ call.kind = "Ok"
    /\ call.n < call.len
    /\ Terminated(binary_reader)

\* ------------------------------------------------ the ends of the u16 range
\* records with the largest segment, upper half and offset a u16 can hold,
\* next to small ones
WideAlphabet ==
  { ExtendedSegmentAddress(1), ExtendedSegmentAddress(Limb - 1),
    ExtendedLinearAddress(Limb - 1),
    Data(0, << 240, 255 >>), Data(Limb - 1, << 170 >>) }

InitWide ==
  /\ input \in SeqsUpTo(WideAlphabet, MaxWideRecords)
  /\ overflow_checks = "unknown"
  /\ binary_reader = new(ReaderNew)
  /\ caller = CallerNew
  /\ call = NoCall
  /\ binary_reader2 = new(ReaderNew)
  /\ caller2 = CallerNew
  /\ call2 = NoCall

SpecWide == InitWide /\ [][Next]_vars

\* the largest address an address record can stand for, 0xFFFF0000
TopAddress == Shl(Limb - 1, 16)

\* C20: as long as no `addr - self.base_address` has underflowed, address is
\* at most 0xFFFF0000 and `self.address + *offset as u32` has not overflowed
\* for any Data record dispatched, so record_address is the exact sum.
C20_RecordAddressFits ==
  ~caller.underflowed =>
    /\ ~Gt32(binary_reader.address, TopAddress)
    /\ ~caller.ra_overflowed
    /\ \A i \in 1..Len(caller.log) :
         /\ ~Gt32(caller.log[i].address, TopAddress)
         /\ ~Add32(caller.log[i].address, FromU16(caller.log[i].offset)).overflow

\* address is 0xFFFF0000 and a Data record with offset 0xFFFF has been
\* dispatched at record_address 0xFFFFFFFF
C20_Witness ==
  /\ ~caller.underflowed
  /\ binary_reader.address = TopAddress
  /\ Len(caller.log) = 2
  /\ caller.log[2].offset = Limb - 1
  /\ caller.log[2].ra = << Limb - 1, Limb - 1 >>

====
